---- MODULE Spec2Model ----
(***************************************************************************)
(* Model of the naive polynomial kernels of polynomial_multiplication:     *)
(*   Naive_Product            P  = A * B         (src/src/naive_product.c) *)
(*   Naive_AddTo_Sum_Product  P += (A0 + A1) * B                           *)
(*                               (src/src/naive_addto_sum_product.c)       *)
(*   Scaled_AddTo             P += c * A            (src/unnamed/part_000) *)
(*   Naive_AddTo_Product      P += A * B  (prototype only, part_001:34-38) *)
(* Every C statement that touches a coefficient buffer is one action; the  *)
(* loop counters n and m and the position in the function (pc) are state.  *)
(* A caller runs a short script of calls on two output buffers.            *)
(***************************************************************************)
EXTENDS Integers, Sequences, FiniteSets, TLC

VARIABLES
    plan,     \* the whole script of calls the caller makes
    script,   \* the calls the caller still has to make
    call,     \* the arguments of the call being executed (or just returned)
    pc,       \* position in the function being executed
    n, m,     \* the loop counters of the function (size_t n, m)
    mem,      \* the caller's output buffers: mem[d] is the array P_coeffs points to
    P0,       \* the contents of the output buffer when the call was entered
    log       \* the buffer accesses of the call so far: <<region, k, i, j>>

vars == <<plan, script, call, pc, n, m, mem, P0, log>>

----------------------------------------------------------------------------
(* Bounds of the model.                                                    *)

\* Largest A_len (first operand) and B_len (second operand) the caller uses.
MaxALen == 3
MaxBLen == 3

(* Widths of the machine types.  int and size_t are at least 16 bits wide  *)
(* in C; the model takes exactly that width so that every product fits     *)
(* the checker's integers.  Signed overflow is modelled as two's           *)
(* complement wraparound, the outcome the builds of this code produce.     *)
IntBits == 16
SizeBits == 16

IntMod == 2 ^ IntBits
IntMin == -(2 ^ (IntBits - 1))
IntMax == 2 ^ (IntBits - 1) - 1
SizeMod == 2 ^ SizeBits

\* A value of type int after wraparound.
Wrap(x) == ((x + 2 ^ (IntBits - 1)) % IntMod) - 2 ^ (IntBits - 1)

\* size_t subtraction: unsigned, modulo SIZE_MAX + 1.
SizeSub(x, y) == (x - y) % SizeMod

----------------------------------------------------------------------------
(* Buffers.  An array of len ints is a function on 0..len-1.               *)

Arrays(len, S) == [0 .. len - 1 -> S]

Size(arr) == Cardinality(DOMAIN arr)

\* The coefficient values the caller puts in A (A0) and B.
Vals == {0, 1, IntMin}

\* The coefficient values the caller puts in A0, A1 and B when it calls
\* Naive_AddTo_Sum_Product.
SumVals == {1, IntMin}

\* What a read of arr[i] can yield: the element, or any value when the
\* index is outside the buffer (the read is undefined behaviour).
Loads(arr, i) == IF i \in DOMAIN arr THEN {arr[i]} ELSE Vals

\* The buffer P_coeffs points to, and the arguments of the current call.
P_coeffs == mem[call.dst]
A_len == Size(call.A0)
B_len == Size(call.B)
A_deg == SizeSub(A_len, 1)
B_deg == SizeSub(B_len, 1)

\* mem after P_coeffs[k] = v (a write outside the buffer lands elsewhere).
Store(k, v) ==
    IF k \in DOMAIN P_coeffs
    THEN [mem EXCEPT ![call.dst] = [@ EXCEPT ![k] = v]]
    ELSE mem

\* Whether the statement touching P[k], A[i], B[j] leaves a buffer.
OutOfBounds(k, i, j) ==
    \/ k \notin DOMAIN P_coeffs
    \/ i \notin DOMAIN call.A0
    \/ j \notin DOMAIN call.B

\* An out-of-bounds access may fault instead of yielding a value.
Faults(k, i, j) == IF OutOfBounds(k, i, j) THEN {TRUE, FALSE} ELSE {FALSE}

----------------------------------------------------------------------------
(* One C statement  P[k] = a * B[j]  (assign) or  P[k] += a * B[j],        *)
(* where a is the coefficient read at index i (coefs: the values that read *)
(* can yield).  Afterwards the function is at pc2 with counters n2, m2.    *)

Stmt(region, assign, coefs, k, i, j, pc2, n2, m2) ==
    \E a \in coefs, b \in Loads(call.B, j), p \in Loads(P_coeffs, k),
       fault \in Faults(k, i, j) :
        /\ log' = Append(log, <<region, k, i, j>>)
        /\ IF fault
           THEN /\ pc' = "fault"
                /\ UNCHANGED <<mem, n, m>>
           ELSE /\ mem' = Store(k, Wrap((IF assign THEN 0 ELSE p) + Wrap(a * b)))
                /\ pc' = pc2
                /\ n' = n2
                /\ m' = m2
        /\ UNCHANGED <<plan, script, call, P0>>

\* A step of loop control that touches no buffer.
Jump(pc2, n2, m2) ==
    /\ pc' = pc2
    /\ n' = n2
    /\ m' = m2
    /\ UNCHANGED <<plan, script, call, mem, P0, log>>

In(fn, at) == call.fn = fn /\ pc = at

----------------------------------------------------------------------------
(* Naive_Product, src/src/naive_product.c:66-139.                          *)

\* Faulty variant: the coefficient is read one element too low (never below 0).
NP_Coef_Low(i) == Loads(call.A0, IF i > 0 THEN i - 1 ELSE 0)

\* The read of A_coeffs[i].
NP_Coef(i) == Loads(call.A0, i)

\* First region, lines 93-99.
NP_R1_Enter ==
    /\ In("Naive_Product", "R1") /\ n <= A_deg
    /\ Stmt(1, TRUE, NP_Coef(0), n, 0, n, "R1m", n, 1)

NP_R1_Inner ==
    /\ In("Naive_Product", "R1m") /\ m <= n
    /\ Stmt(1, FALSE, NP_Coef(m), n, m, SizeSub(n, m), "R1m", n, m + 1)

NP_R1_Next ==
    /\ In("Naive_Product", "R1m") /\ ~(m <= n)
    /\ Jump("R1", n + 1, m)

NP_R1_Exit ==
    /\ In("Naive_Product", "R1") /\ ~(n <= A_deg)
    /\ Jump("R2", A_deg + 1, m)

\* Faulty variant: the first term of the second region reads B_coeffs[n - 1].
NP_R2_Enter_PrevB ==
    /\ In("Naive_Product", "R2") /\ n <= B_deg
    /\ Stmt(2, TRUE, NP_Coef(0), n, 0, SizeSub(n, 1), "R2m", n, 1)

\* Faulty variant: the second region runs to n = B_len, one index too far.
NP_R2_Enter_OneTooFar ==
    /\ In("Naive_Product", "R2") /\ n <= B_len
    /\ Stmt(2, TRUE, NP_Coef(0), n, 0, n, "R2m", n, 1)

\* Second region, lines 112-118.
NP_R2_Enter ==
    /\ In("Naive_Product", "R2") /\ n <= B_deg
    /\ Stmt(2, TRUE, NP_Coef(0), n, 0, n, "R2m", n, 1)

\* Faulty variant: the inner loop reads B_coeffs[n] instead of B_coeffs[n - m].
NP_R2_Inner_NoShift ==
    /\ In("Naive_Product", "R2m") /\ m <= A_deg
    /\ Stmt(2, FALSE, NP_Coef(m), n, m, n, "R2m", n, m + 1)

NP_R2_Inner ==
    /\ In("Naive_Product", "R2m") /\ m <= A_deg
    /\ Stmt(2, FALSE, NP_Coef(m), n, m, SizeSub(n, m), "R2m", n, m + 1)

NP_R2_Next ==
    /\ In("Naive_Product", "R2m") /\ ~(m <= A_deg)
    /\ Jump("R2", n + 1, m)

NP_R2_Exit ==
    /\ In("Naive_Product", "R2") /\ ~(n <= B_deg)
    /\ Jump("R3", B_deg + 1, m)

\* Faulty variant: the first term of the third region is added, not assigned.
NP_R3_Enter_Adds ==
    /\ In("Naive_Product", "R3") /\ n <= A_deg + B_deg
    /\ Stmt(3, FALSE, NP_Coef(SizeSub(n, B_deg)), n, SizeSub(n, B_deg), B_deg,
            "R3m", n, SizeSub(n, B_deg) + 1)

\* Third region, lines 131-138.
NP_R3_Enter ==
    /\ In("Naive_Product", "R3") /\ n <= A_deg + B_deg
    /\ Stmt(3, TRUE, NP_Coef(SizeSub(n, B_deg)), n, SizeSub(n, B_deg), B_deg,
            "R3m", n, SizeSub(n, B_deg) + 1)

\* Faulty variant: the inner loop of the third region reads A_coeffs[m - 1].
NP_R3_Inner_PrevCoef ==
    /\ In("Naive_Product", "R3m") /\ m <= A_deg
    /\ Stmt(3, FALSE, NP_Coef(m - 1), n, m - 1, SizeSub(n, m), "R3m", n, m + 1)

NP_R3_Inner ==
    /\ In("Naive_Product", "R3m") /\ m <= A_deg
    /\ Stmt(3, FALSE, NP_Coef(m), n, m, SizeSub(n, m), "R3m", n, m + 1)

NP_R3_Next ==
    /\ In("Naive_Product", "R3m") /\ ~(m <= A_deg)
    /\ Jump("R3", n + 1, m)

NP_R3_Exit ==
    /\ In("Naive_Product", "R3") /\ ~(n <= A_deg + B_deg)
    /\ Jump("ret", n, m)

Naive_Product ==
    \/ NP_R1_Enter \/ NP_R1_Inner \/ NP_R1_Next \/ NP_R1_Exit
    \/ NP_R2_Enter \/ NP_R2_Inner \/ NP_R2_Next \/ NP_R2_Exit
    \/ NP_R3_Enter \/ NP_R3_Inner \/ NP_R3_Next \/ NP_R3_Exit

----------------------------------------------------------------------------
(* Naive_AddTo_Sum_Product, src/src/naive_addto_sum_product.c:72-142.      *)

\* Faulty variant: A1 is left out of the sum.
SP_Coef_A0Only(i) == Loads(call.A0, i)

\* The value of (A0_coeffs[i] + A1_coeffs[i]).
SP_Coef(i) == {Wrap(x + y) : x \in Loads(call.A0, i), y \in Loads(call.A1, i)}

\* First region, lines 100-102: no statement before the inner loop.
SP_R1_Enter ==
    /\ In("Naive_AddTo_Sum_Product", "R1") /\ n <= A_deg
    /\ Jump("R1m", n, 0)

\* Faulty variant: the inner loop reads B_coeffs[n] instead of B_coeffs[n - m].
SP_R1_Inner_NoShift ==
    /\ In("Naive_AddTo_Sum_Product", "R1m") /\ m <= n
    /\ Stmt(1, FALSE, SP_Coef(m), n, m, n, "R1m", n, m + 1)

SP_R1_Inner ==
    /\ In("Naive_AddTo_Sum_Product", "R1m") /\ m <= n
    /\ Stmt(1, FALSE, SP_Coef(m), n, m, SizeSub(n, m), "R1m", n, m + 1)

SP_R1_Next ==
    /\ In("Naive_AddTo_Sum_Product", "R1m") /\ ~(m <= n)
    /\ Jump("R1", n + 1, m)

SP_R1_Exit ==
    /\ In("Naive_AddTo_Sum_Product", "R1") /\ ~(n <= A_deg)
    /\ Jump("R2", A_deg + 1, m)

\* Faulty variant: the first term of the second region is added, not assigned.
SP_R2_Enter_Adds ==
    /\ In("Naive_AddTo_Sum_Product", "R2") /\ n <= B_deg
    /\ Stmt(2, FALSE, SP_Coef(0), n, 0, n, "R2m", n, 1)

\* Second region, lines 115-121.
SP_R2_Enter ==
    /\ In("Naive_AddTo_Sum_Product", "R2") /\ n <= B_deg
    /\ Stmt(2, TRUE, SP_Coef(0), n, 0, n, "R2m", n, 1)

SP_R2_Inner ==
    /\ In("Naive_AddTo_Sum_Product", "R2m") /\ m <= A_deg
    /\ Stmt(2, FALSE, SP_Coef(m), n, m, SizeSub(n, m), "R2m", n, m + 1)

SP_R2_Next ==
    /\ In("Naive_AddTo_Sum_Product", "R2m") /\ ~(m <= A_deg)
    /\ Jump("R2", n + 1, m)

SP_R2_Exit ==
    /\ In("Naive_AddTo_Sum_Product", "R2") /\ ~(n <= B_deg)
    /\ Jump("R3", B_deg + 1, m)

\* Third region, lines 134-141.
SP_R3_Enter ==
    /\ In("Naive_AddTo_Sum_Product", "R3") /\ n <= A_deg + B_deg
    /\ Stmt(3, TRUE, SP_Coef(SizeSub(n, B_deg)), n, SizeSub(n, B_deg), B_deg,
            "R3m", n, SizeSub(n, B_deg) + 1)

\* Faulty variant: the inner loop of the third region steps m by two.
SP_R3_Inner_Skips ==
    /\ In("Naive_AddTo_Sum_Product", "R3m") /\ m <= A_deg
    /\ Stmt(3, FALSE, SP_Coef(m), n, m, SizeSub(n, m), "R3m", n, m + 2)

SP_R3_Inner ==
    /\ In("Naive_AddTo_Sum_Product", "R3m") /\ m <= A_deg
    /\ Stmt(3, FALSE, SP_Coef(m), n, m, SizeSub(n, m), "R3m", n, m + 1)

SP_R3_Next ==
    /\ In("Naive_AddTo_Sum_Product", "R3m") /\ ~(m <= A_deg)
    /\ Jump("R3", n + 1, m)

SP_R3_Exit ==
    /\ In("Naive_AddTo_Sum_Product", "R3") /\ ~(n <= A_deg + B_deg)
    /\ Jump("ret", n, m)

Naive_AddTo_Sum_Product ==
    \/ SP_R1_Enter \/ SP_R1_Inner \/ SP_R1_Next \/ SP_R1_Exit
    \/ SP_R2_Enter \/ SP_R2_Inner \/ SP_R2_Next \/ SP_R2_Exit
    \/ SP_R3_Enter \/ SP_R3_Inner \/ SP_R3_Next \/ SP_R3_Exit

----------------------------------------------------------------------------
(* Naive_AddTo_Product, P += A * B.  Only its prototype is in the sources  *)
(* (src/unnamed/part_001:34-38); the body follows the description of the   *)
(* accumulate variant: the region structure of Naive_Product, with every   *)
(* term, the first of each index included, added into P[n].                *)

AP_R1_Enter ==
    /\ In("Naive_AddTo_Product", "R1") /\ n <= A_deg
    /\ Stmt(1, FALSE, NP_Coef(0), n, 0, n, "R1m", n, 1)

AP_R1_Inner ==
    /\ In("Naive_AddTo_Product", "R1m") /\ m <= n
    /\ Stmt(1, FALSE, NP_Coef(m), n, m, SizeSub(n, m), "R1m", n, m + 1)

AP_R1_Next ==
    /\ In("Naive_AddTo_Product", "R1m") /\ ~(m <= n)
    /\ Jump("R1", n + 1, m)

AP_R1_Exit ==
    /\ In("Naive_AddTo_Product", "R1") /\ ~(n <= A_deg)
    /\ Jump("R2", A_deg + 1, m)

AP_R2_Enter ==
    /\ In("Naive_AddTo_Product", "R2") /\ n <= B_deg
    /\ Stmt(2, FALSE, NP_Coef(0), n, 0, n, "R2m", n, 1)

AP_R2_Inner ==
    /\ In("Naive_AddTo_Product", "R2m") /\ m <= A_deg
    /\ Stmt(2, FALSE, NP_Coef(m), n, m, SizeSub(n, m), "R2m", n, m + 1)

AP_R2_Next ==
    /\ In("Naive_AddTo_Product", "R2m") /\ ~(m <= A_deg)
    /\ Jump("R2", n + 1, m)

AP_R2_Exit ==
    /\ In("Naive_AddTo_Product", "R2") /\ ~(n <= B_deg)
    /\ Jump("R3", B_deg + 1, m)

AP_R3_Enter ==
    /\ In("Naive_AddTo_Product", "R3") /\ n <= A_deg + B_deg
    /\ Stmt(3, FALSE, NP_Coef(SizeSub(n, B_deg)), n, SizeSub(n, B_deg), B_deg,
            "R3m", n, SizeSub(n, B_deg) + 1)

AP_R3_Inner ==
    /\ In("Naive_AddTo_Product", "R3m") /\ m <= A_deg
    /\ Stmt(3, FALSE, NP_Coef(m), n, m, SizeSub(n, m), "R3m", n, m + 1)

AP_R3_Next ==
    /\ In("Naive_AddTo_Product", "R3m") /\ ~(m <= A_deg)
    /\ Jump("R3", n + 1, m)

AP_R3_Exit ==
    /\ In("Naive_AddTo_Product", "R3") /\ ~(n <= A_deg + B_deg)
    /\ Jump("ret", n, m)

Naive_AddTo_Product ==
    \/ AP_R1_Enter \/ AP_R1_Inner \/ AP_R1_Next \/ AP_R1_Exit
    \/ AP_R2_Enter \/ AP_R2_Inner \/ AP_R2_Next \/ AP_R2_Exit
    \/ AP_R3_Enter \/ AP_R3_Inner \/ AP_R3_Next \/ AP_R3_Exit

----------------------------------------------------------------------------
(* Scaled_AddTo, src/unnamed/part_000:66-77.  call.A0 is A_coeffs and      *)
(* call.len is len.                                                        *)

\* Faulty variant: scalar + A_coeffs[n] is added instead of the product.
SA_Loop_Plus ==
    /\ In("Scaled_AddTo", "L") /\ n < call.len
    /\ log' = Append(log, <<0, n, n, n>>)
    /\ mem' = Store(n, Wrap(P_coeffs[n] + Wrap(call.scalar + call.A0[n])))
    /\ pc' = "L"
    /\ n' = n + 1
    /\ UNCHANGED <<plan, script, call, P0, m>>

\* Faulty variant: the scaled element is assigned to P_coeffs[n], not added.
SA_Loop_Assigns ==
    /\ In("Scaled_AddTo", "L") /\ n < call.len
    /\ log' = Append(log, <<0, n, n, n>>)
    /\ mem' = Store(n, Wrap(call.scalar * call.A0[n]))
    /\ pc' = "L"
    /\ n' = n + 1
    /\ UNCHANGED <<plan, script, call, P0, m>>

\* Line 75 true, line 76: P_coeffs[n] += scalar * A_coeffs[n]; then ++n.
SA_Loop ==
    /\ In("Scaled_AddTo", "L") /\ n < call.len
    /\ \E a \in Loads(call.A0, n), p \in Loads(P_coeffs, n),
          fault \in (IF n \in DOMAIN P_coeffs /\ n \in DOMAIN call.A0
                     THEN {FALSE} ELSE {TRUE, FALSE}) :
        /\ log' = Append(log, <<0, n, n, n>>)
        /\ IF fault
           THEN /\ pc' = "fault"
                /\ UNCHANGED <<mem, n>>
           ELSE /\ mem' = Store(n, Wrap(p + Wrap(call.scalar * a)))
                /\ pc' = "L"
                /\ n' = n + 1
        /\ UNCHANGED <<plan, script, call, P0, m>>

\* Line 75 false: the function returns.
SA_Exit ==
    /\ In("Scaled_AddTo", "L") /\ ~(n < call.len)
    /\ Jump("ret", n, m)

Scaled_AddTo == SA_Loop \/ SA_Exit

----------------------------------------------------------------------------
(* The caller.                                                             *)

\* Where each function starts: after its declarations, at its first loop,
\* whose initialiser sets n = zero.
Entry(fn) == IF fn = "Scaled_AddTo" THEN "L" ELSE "R1"

\* The caller makes the next call of its script.
Call ==
    /\ pc \in {"idle", "ret"}
    /\ script # <<>>
    /\ call' = Head(script)
    /\ script' = Tail(script)
    /\ pc' = Entry(Head(script).fn)
    /\ n' = 0
    /\ m' = 0
    /\ P0' = mem[Head(script).dst]
    /\ log' = <<>>
    /\ UNCHANGED <<plan, mem>>

\* Every call of the script has returned.
Done == pc = "ret" /\ script = <<>>

\* A call record.
MkCall(fn, dst, a0, a1, b, len, scalar) ==
    [fn |-> fn, dst |-> dst, A0 |-> a0, A1 |-> a1, B |-> b,
     len |-> len, scalar |-> scalar]

CallProduct(dst, a, b) == MkCall("Naive_Product", dst, a, a, b, Size(a), 0)
CallSumProduct(dst, a0, a1, b) ==
    MkCall("Naive_AddTo_Sum_Product", dst, a0, a1, b, Size(a0), 0)
CallAddToProduct(dst, a, b) ==
    MkCall("Naive_AddTo_Product", dst, a, a, b, Size(a), 0)
CallScaled(dst, a, len, c) == MkCall("Scaled_AddTo", dst, a, a, a, len, c)

\* The value the call record holds before the first call.
NoCall == MkCall("none", 1, <<>>, <<>>, <<>>, 0, 0)

\* Initial contents of an output buffer of cap ints: zeroed, or left over
\* from earlier use.
Zeros(cap) == [k \in 0 .. cap - 1 |-> 0]
Ramp(cap) == [k \in 0 .. cap - 1 |-> k + 1]
Fills(cap) == {Zeros(cap), Ramp(cap), [k \in 0 .. cap - 1 |-> IntMin]}

\* The array with the elements of the tuple t, indexed from 0.
Arr(t) == [k \in 0 .. Len(t) - 1 |-> t[k + 1]]

Lens == (1 .. MaxALen) \X (1 .. MaxBLen)

\* Scripts: one call of a function on garbage or zeroed P.
OneProduct ==
    { <<CallProduct(1, a, b)>> :
        a \in UNION {Arrays(l[1], Vals) : l \in Lens},
        b \in UNION {Arrays(l[2], Vals) : l \in Lens} }

OneSumProduct ==
    UNION { { <<CallSumProduct(1, a0, a1, b)>> :
                a0 \in Arrays(l[1], SumVals), a1 \in Arrays(l[1], SumVals),
                b \in Arrays(l[2], SumVals) } :
            l \in {x \in Lens : x[1] <= x[2]} }

OneScaled ==
    UNION { { <<CallScaled(1, a, len, c)>> : a \in Arrays(len, Vals), c \in Vals } :
            len \in 0 .. MaxBLen }

\* The worked examples: (1 + 2x)(3 + 4x + 5x^2), and
\* ((1 + x) + 2)(1 + x^2) accumulated onto a zeroed P.
ExampleProduct == <<CallProduct(1, Arr(<<1, 2>>), Arr(<<3, 4, 5>>))>>
ExampleSumProduct ==
    <<CallSumProduct(1, Arr(<<1, 1>>), Arr(<<2, 0>>), Arr(<<1, 0, 1>>))>>

\* A * B into buffer 1, then B * A into buffer 2 (A the shorter operand:
\* the other order of the two calls is the same pair of calls).
Commute ==
    UNION { { <<CallProduct(1, a, b), CallProduct(2, b, a)>> :
                a \in Arrays(l[1], Vals), b \in Arrays(l[2], Vals) } :
            l \in {x \in Lens : x[1] <= x[2]} }

\* (A0 + A1) * B into buffer 1; A0 * B and then A1 * B added into buffer 2.
Decompose ==
    UNION { { <<CallSumProduct(1, a0, a1, b),
                CallAddToProduct(2, a0, b), CallAddToProduct(2, a1, b)>> :
                a0 \in Arrays(l[1], SumVals), a1 \in Arrays(l[1], SumVals),
                b \in Arrays(l[2], SumVals) } :
            l \in {x \in Lens : x[1] <= x[2]} }

\* [1] * B: the sum-product call with A0 = [1], A1 = [0] on a zeroed P.
IdentitySum ==
    { <<CallSumProduct(1, Arr(<<1>>), Arr(<<0>>), b)>> :
        b \in UNION {Arrays(l, Vals) : l \in 1 .. MaxBLen} }

\* The caller's c1 + c2, in int arithmetic.
ScalarSum(c1, c2) == Wrap(c1 + c2)

\* P += c1 * A and then P += c2 * A on buffer 1; P += (c1 + c2) * A on
\* buffer 2.
Linear ==
    UNION { { <<CallScaled(1, a, len, c[1]), CallScaled(1, a, len, c[2]),
                CallScaled(2, a, len, ScalarSum(c[1], c[2]))>> :
                a \in Arrays(len, Vals), c \in Vals \X Vals } :
            len \in 0 .. MaxBLen }

\* The capacity the caller gives P for a script: A_len + B_len - 1, and
\* len + 1 for Scaled_AddTo (one element beyond those the call is given).
Cap(s) ==
    IF s[1].fn = "Scaled_AddTo" THEN s[1].len + 1
    ELSE Size(s[1].A0) + Size(s[1].B) - 1

Start(s, fill) ==
    /\ plan = s
    /\ script = s
    /\ call = NoCall
    /\ pc = "idle"
    /\ n = 0
    /\ m = 0
    /\ mem = [d \in 1 .. 2 |-> fill]
    /\ P0 = fill
    /\ log = <<>>

Init ==
    \/ \E s \in OneProduct \union OneSumProduct \union OneScaled \union Linear :
         \E fill \in Fills(Cap(s)) : Start(s, fill)
    \/ \E s \in Commute \union {ExampleProduct} : Start(s, Ramp(Cap(s)))
    \/ \E s \in Decompose \union {ExampleSumProduct} \union IdentitySum :
         Start(s, Zeros(Cap(s)))

Next ==
    \/ Call
    \/ Naive_Product
    \/ Naive_AddTo_Sum_Product
    \/ Naive_AddTo_Product
    \/ Scaled_AddTo

Spec == Init /\ [][Next]_vars

----------------------------------------------------------------------------
(* The mathematics the claims are stated in.                               *)

\* The sum over i in 0..upto, with 0 <= k - i <= B_deg, of a[i] * b[k - i];
\* each product is reduced to the width of int, which leaves the sum's
\* residue unchanged.
RECURSIVE CauchySum(_, _, _, _)
CauchySum(a, b, k, upto) ==
    IF upto < 0 THEN 0
    ELSE CauchySum(a, b, k, upto - 1)
         + (IF (k - upto) \in DOMAIN b THEN Wrap(a[upto] * b[k - upto]) ELSE 0)

\* Coefficient k of the Cauchy product of a and b, in int arithmetic.
Cauchy(a, b, k) == Wrap(CauchySum(a, b, k, Size(a) - 1))

\* The pointwise sum of two arrays of the same length, in int arithmetic.
PointwiseSum(a0, a1) == [i \in DOMAIN a0 |-> Wrap(a0[i] + a1[i])]

\* The call of fn has returned and its arguments are still in call.
Returned(fn) == pc = "ret" /\ call.fn = fn

\* The output indices of a product: 0 .. A_len + B_len - 2.
OutIdx == 0 .. A_len + B_len - 2

\* The accesses logged so far stay inside A (A0, A1), B and the first
\* A_len + B_len - 1 elements of P.
LogInBounds ==
    \A e \in 1 .. Len(log) :
        /\ log[e][2] \in OutIdx
        /\ log[e][3] \in 0 .. A_len - 1
        /\ log[e][4] \in 0 .. B_len - 1

----------------------------------------------------------------------------
(* C1.  Naive_Product with 1 <= A_len <= B_len, whatever P held before:    *)
(* when it returns, P[k] is the Cauchy product coefficient                 *)
(* sum_{i+j=k} A[i]*B[j] (wraparound arithmetic) for every k in            *)
(* 0..A_len+B_len-2; A=[1,2], B=[3,4,5] gives P=[3,10,13,10].              *)
C1_OverwriteMultiply ==
    (Returned("Naive_Product") /\ A_len <= B_len) =>
        /\ \A k \in OutIdx : P_coeffs[k] = Cauchy(call.A0, call.B, k)
        /\ plan = ExampleProduct => P_coeffs = Arr(<<3, 10, 13, 10>>)

C1_Witness ==
    /\ Returned("Naive_Product")
    /\ plan = ExampleProduct
    /\ P0 = Arr(<<1, 2, 3, 4>>)
    /\ P_coeffs = Arr(<<3, 10, 13, 10>>)

----------------------------------------------------------------------------
(* C2.  Naive_AddTo_Sum_Product computes P += (A0+A1)*B: with              *)
(* 1 <= A_len <= B_len and any initial P0, when it returns                 *)
(* P[k] = P0[k] + sum_{i+j=k} (A0[i]+A1[i])*B[j] for every k in            *)
(* 0..A_len+B_len-2.                                                       *)
C2_SumProductAccumulates ==
    (Returned("Naive_AddTo_Sum_Product") /\ A_len <= B_len) =>
        \A k \in OutIdx :
            P_coeffs[k] =
                Wrap(P0[k] + Cauchy(PointwiseSum(call.A0, call.A1), call.B, k))

----------------------------------------------------------------------------
(* C3.  Memory safety of the banded sweep: in Naive_Product and            *)
(* Naive_AddTo_Sum_Product called with 1 <= A_len <= B_len, every access   *)
(* of every step reads A (A0, A1) at an index in 0..A_len-1, B at an index *)
(* in 0..B_len-1 and P at an index in 0..A_len+B_len-2 (an index           *)
(* subtraction that went below zero would wrap to an index far outside),   *)
(* and no access faults.                                                   *)
C3_SweepInBounds ==
    (call.fn \in {"Naive_Product", "Naive_AddTo_Sum_Product"} /\ A_len <= B_len) =>
        /\ LogInBounds
        /\ pc # "fault"

\* A whole sweep with all three regions non-trivial has been logged.
C3_Witness ==
    /\ Returned("Naive_AddTo_Sum_Product")
    /\ A_len = 2 /\ B_len = 3
    /\ Len(log) = 6
    /\ \E e \in 1 .. Len(log) : log[e] = <<3, 3, 1, 2>>
    /\ \E e \in 1 .. Len(log) : log[e] = <<2, 2, 1, 1>>

----------------------------------------------------------------------------
(* C4.  As claimed: Naive_Product called with A_len > B_len (both >= 1)    *)
(* stays inside the A and B buffers and leaves the Cauchy product in       *)
(* P[0..A_len+B_len-2].                                                    *)
C4_UnorderedInBoundsAndCorrect ==
    (call.fn = "Naive_Product" /\ A_len > B_len) =>
        /\ LogInBounds
        /\ pc # "fault"
        /\ pc = "ret" => \A k \in OutIdx : P_coeffs[k] = Cauchy(call.A0, call.B, k)

(* C4, amended.  The ordering is needed.  Naive_Product called with        *)
(* A_len > B_len stays inside A and P but reads B outside its buffer: in   *)
(* the first region at indices in B_len..A_len-1, and, when                *)
(* A_len >= B_len + 2, in the inner loop of the third region at n - m      *)
(* wrapped below zero.  If the call returns, P[k] is the Cauchy product    *)
(* coefficient for every k outside B_len..A_len-2, hence for every k in    *)
(* 0..A_len+B_len-2 when A_len = B_len + 1.                                *)
C4_UnorderedCorrectIfReturns ==
    (call.fn = "Naive_Product" /\ A_len > B_len) =>
        /\ \A e \in 1 .. Len(log) :
            /\ log[e][2] \in OutIdx
            /\ log[e][3] \in 0 .. A_len - 1
            /\ \/ log[e][4] \in 0 .. B_len - 1
               \/ /\ log[e][1] = 1
                  /\ log[e][2] \in B_len .. A_len - 1
                  /\ log[e][4] \in B_len .. A_len - 1
               \/ /\ log[e][1] = 3
                  /\ A_len >= B_len + 2
                  /\ log[e][2] \in B_len .. A_len - 2
                  /\ log[e][4] = SizeSub(log[e][2], log[e][3])
                  /\ log[e][2] < log[e][3]
        /\ pc = "ret" =>
              \A k \in OutIdx \ (B_len .. A_len - 2) :
                  P_coeffs[k] = Cauchy(call.A0, call.B, k)

\* The call read B[2] with B_len = 2 and returned.
C4_Witness ==
    /\ Returned("Naive_Product")
    /\ A_len = 3 /\ B_len = 2
    /\ \E e \in 1 .. Len(log) : log[e] = <<1, 2, 0, 2>>
    /\ P_coeffs[2] # 0

----------------------------------------------------------------------------
(* C5.  As claimed: for all A and B of lengths >= 1, after                 *)
(* Naive_Product(P1, A, A_len, B, B_len) and                               *)
(* Naive_Product(P2, B, B_len, A, A_len) have returned, P1[k] = P2[k] for  *)
(* every k in 0..A_len+B_len-2.                                            *)
InCommute == Len(plan) = 2 /\ plan[1].fn = "Naive_Product"

\* The lengths of the two operands differ by at most d.
LengthsWithin(d) ==
    /\ Size(plan[1].A0) - Size(plan[1].B) <= d
    /\ Size(plan[1].B) - Size(plan[1].A0) <= d

C5_CommutesForAllLengths ==
    (InCommute /\ Done) => \A k \in OutIdx : mem[1][k] = mem[2][k]

(* C5, amended.  When A_len = B_len both calls stay in bounds, and when    *)
(* the lengths differ by at most one and both calls return,                *)
(* P1[k] = P2[k] for every k in 0..A_len+B_len-2.  (With lengths further   *)
(* apart the call whose first operand is the longer one adds terms read    *)
(* outside its second operand.)                                            *)
C5_CommutesIfBothReturn ==
    InCommute =>
        /\ LengthsWithin(0) => (pc # "fault" /\ LogInBounds)
        /\ (Done /\ LengthsWithin(1)) => \A k \in OutIdx : mem[1][k] = mem[2][k]

\* Both products of operands of different lengths are there and are equal.
C5_Witness ==
    /\ InCommute /\ Done
    /\ Size(plan[1].A0) = 2 /\ Size(plan[1].B) = 3
    /\ mem[1] = mem[2]
    /\ mem[1] # Ramp(4)
    /\ mem[1][1] = IntMin

----------------------------------------------------------------------------
(* C6.  Naive_AddTo_Sum_Product with 1 <= A_len <= B_len reads and writes  *)
(* P only at indices below A_deg + B_deg, so that a P of A_deg + B_deg     *)
(* ints (the width its header comment asks for) suffices.                  *)
C6_PWithinDegreeSum ==
    (call.fn = "Naive_AddTo_Sum_Product" /\ A_len <= B_len) =>
        \A e \in 1 .. Len(log) : log[e][2] < A_deg + B_deg

----------------------------------------------------------------------------
(* C7.  Scaled_AddTo computes P += c*A elementwise: when it returns,       *)
(* P[k] = P0[k] + c*A[k] (wraparound) for k in [0, len), P[k] is unchanged *)
(* for k >= len, exactly the elements below len were touched (none when    *)
(* len = 0), and A is as it was given.                                     *)
C7_ScaledAddTo ==
    Returned("Scaled_AddTo") =>
        /\ \A k \in DOMAIN P_coeffs :
            P_coeffs[k] = IF k < call.len
                          THEN Wrap(P0[k] + Wrap(call.scalar * call.A0[k]))
                          ELSE P0[k]
        /\ {log[e][2] : e \in 1 .. Len(log)} = 0 .. call.len - 1
        /\ Len(log) = call.len
        /\ call.A0 = plan[1].A0
        /\ call.len = 0 => (log = <<>> /\ P_coeffs = P0)

\* A call with len = 3 whose sums wrapped around.
C7_Witness ==
    /\ Returned("Scaled_AddTo")
    /\ call.len = 3 /\ call.scalar = IntMin
    /\ P0 = [k \in 0 .. 3 |-> IntMin]
    /\ P_coeffs = [k \in 0 .. 3 |-> IF k = 1 THEN 0 ELSE IntMin]

----------------------------------------------------------------------------
(* C8.  Sum-product decomposition: for 1 <= A_len <= B_len,                *)
(* Naive_AddTo_Sum_Product(P, A0, A1, B) on a zeroed P leaves in           *)
(* P[0..A_len+B_len-2] what Naive_AddTo_Product(P, A0, B) followed by      *)
(* Naive_AddTo_Product(P, A1, B) leaves on a zeroed P.                     *)
InDecompose == Len(plan) = 3 /\ plan[1].fn = "Naive_AddTo_Sum_Product"

C8_SumProductDecomposes ==
    (InDecompose /\ Done) => \A k \in OutIdx : mem[1][k] = mem[2][k]

\* Both sides are there, with a sum A0[i] + A1[i] that wrapped around.
C8_Witness ==
    /\ InDecompose /\ Done
    /\ A_len = 2 /\ B_len = 3
    /\ plan[1].A0[0] = IntMin /\ plan[1].A1[0] = IntMin /\ plan[1].A0[1] = 1
    /\ mem[1] = mem[2]
    /\ mem[1][1] # 0

----------------------------------------------------------------------------
(* C9.  As claimed: with A0=[1,1], A1=[2,0], B=[1,0,1] and P=[0,0,0,0],    *)
(* Naive_AddTo_Sum_Product leaves P = [3,3,3,3].                           *)
C9_ExampleAllThrees ==
    (plan = ExampleSumProduct /\ Done) => P_coeffs = Arr(<<3, 3, 3, 3>>)

(* C9, amended.  With those inputs Naive_AddTo_Sum_Product leaves          *)
(* P = [3,1,3,1], the coefficients of (3 + x)(1 + x^2).                    *)
C9_ExampleProduct ==
    (plan = ExampleSumProduct /\ Done) => P_coeffs = Arr(<<3, 1, 3, 1>>)

C9_Witness ==
    /\ plan = ExampleSumProduct /\ Done
    /\ P0 = Zeros(4)
    /\ P_coeffs = Arr(<<3, 1, 3, 1>>)

----------------------------------------------------------------------------
(* C10.  As claimed: after Naive_Product with 1 <= A_len <= B_len the top  *)
(* coefficient P[A_deg+B_deg] is the single term A[A_deg]*B[B_deg], and it *)
(* is zero only if A[A_deg] = 0 or B[B_deg] = 0.                           *)
C10_DegreeLaw ==
    (Returned("Naive_Product") /\ A_len <= B_len) =>
        /\ P_coeffs[A_deg + B_deg] = Wrap(call.A0[A_deg] * call.B[B_deg])
        /\ P_coeffs[A_deg + B_deg] = 0 => (call.A0[A_deg] = 0 \/ call.B[B_deg] = 0)

(* C10, amended.  The top coefficient is the single term                   *)
(* A[A_deg]*B[B_deg] reduced to the width of int; it is zero exactly when  *)
(* that product is a multiple of 2^IntBits, so it is nonzero whenever both *)
(* leading coefficients are nonzero and their product does not overflow.   *)
C10_DegreeLawModulo ==
    (Returned("Naive_Product") /\ A_len <= B_len) =>
        /\ P_coeffs[A_deg + B_deg] = Wrap(call.A0[A_deg] * call.B[B_deg])
        /\ P_coeffs[A_deg + B_deg] = 0
              <=> (call.A0[A_deg] * call.B[B_deg]) % IntMod = 0
        /\ ( /\ call.A0[A_deg] # 0 /\ call.B[B_deg] # 0
             /\ call.A0[A_deg] * call.B[B_deg] \in IntMin .. IntMax )
              => P_coeffs[A_deg + B_deg] # 0

\* Nonzero leading coefficients whose product wraps to zero.
C10_Witness ==
    /\ Returned("Naive_Product")
    /\ A_len = 2 /\ B_len = 3
    /\ call.A0[A_deg] = IntMin /\ call.B[B_deg] = IntMin
    /\ P0[A_deg + B_deg] # 0
    /\ P_coeffs[A_deg + B_deg] = 0

----------------------------------------------------------------------------
(* C11.  Identity element: with A = [1] (A_len = 1), Naive_Product leaves  *)
(* P[k] = B[k] for every k in 0..B_len-1, and Naive_AddTo_Sum_Product      *)
(* with A0 = [1], A1 = [0] on a zeroed P leaves P[k] = B[k] likewise.      *)
C11_IdentityElement ==
    /\ (Returned("Naive_Product") /\ call.A0 = Arr(<<1>>)) =>
          \A k \in 0 .. B_len - 1 : P_coeffs[k] = call.B[k]
    /\ ( /\ Returned("Naive_AddTo_Sum_Product")
         /\ call.A0 = Arr(<<1>>) /\ call.A1 = Arr(<<0>>)
         /\ P0 = Zeros(B_len) ) =>
          \A k \in 0 .. B_len - 1 : P_coeffs[k] = call.B[k]

\* The sum-product call with [1] + [0] has copied a B of three elements.
C11_Witness ==
    /\ Returned("Naive_AddTo_Sum_Product")
    /\ call.A0 = Arr(<<1>>) /\ call.A1 = Arr(<<0>>)
    /\ call.B = Arr(<<IntMin, 1, IntMin>>)
    /\ P0 = Zeros(3)
    /\ P_coeffs = call.B

----------------------------------------------------------------------------
(* C12.  Linearity of Scaled_AddTo: Scaled_AddTo(P, A, len, c1) followed   *)
(* by Scaled_AddTo(P, A, len, c2) leaves P equal, element for element, to  *)
(* one Scaled_AddTo(P, A, len, c1 + c2) on the same initial P, also when   *)
(* c1 + c2 or the products wrap around.                                    *)
InLinear == Len(plan) = 3 /\ plan[1].fn = "Scaled_AddTo"

C12_ScaledAddToLinear ==
    (InLinear /\ Done) => mem[1] = mem[2]

\* Both sides are there, after products that wrapped around.
C12_Witness ==
    /\ InLinear /\ Done
    /\ call.len = 3 /\ call.A0 = Arr(<<1, IntMin, 1>>)
    /\ plan[1].scalar = 1 /\ plan[2].scalar = IntMin
    /\ call.scalar = IntMin + 1
    /\ mem[1] = Arr(<<IntMin + 2, IntMin + 2, IntMin + 4, 4>>)
    /\ mem[2] = mem[1]

----------------------------------------------------------------------------
(* C13.  Three-region decomposition: in Naive_Product and                  *)
(* Naive_AddTo_Sum_Product with 1 <= A_len <= B_len the three outer loops  *)
(* handle the output indices 0..A_deg, A_deg+1..B_deg and                  *)
(* B_deg+1..A_deg+B_deg, in increasing order; every term is a pair (i, j)  *)
(* with i + j = n, no pair contributes twice, and when the call returns    *)
(* every pair of (0..A_deg) x (0..B_deg) has contributed (A_len * B_len    *)
(* terms) and every output index was handled; the second region handles    *)
(* no index when A_len = B_len; every step of the call moves it forward    *)
(* and it is never stuck, so the call terminates.                          *)
InSweep ==
    /\ call.fn \in {"Naive_Product", "Naive_AddTo_Sum_Product"}
    /\ A_len <= B_len

\* The output indices of each region.
RegionIdx(r) ==
    CASE r = 1 -> 0 .. A_deg
      [] r = 2 -> A_deg + 1 .. B_deg
      [] r = 3 -> B_deg + 1 .. A_deg + B_deg

\* The region the call is in (4 once it has returned).
RegionAt ==
    CASE pc \in {"R1", "R1m"} -> 1
      [] pc \in {"R2", "R2m"} -> 2
      [] pc \in {"R3", "R3m"} -> 3
      [] OTHER -> 4

\* How far the call has come: ordered by n, then region, then m.
Position ==
    (n * 5 + RegionAt) * (A_len + B_len + 2)
        + (IF pc \in {"R1m", "R2m", "R3m"} THEN 1 + m ELSE 0)

C13_Regions ==
    InSweep =>
        /\ \A e \in 1 .. Len(log) :
            /\ log[e][1] \in 1 .. 3
            /\ log[e][2] \in RegionIdx(log[e][1])
            /\ log[e][3] \in 0 .. A_deg
            /\ log[e][4] \in 0 .. B_deg
            /\ log[e][3] + log[e][4] = log[e][2]
        /\ \A e, f \in 1 .. Len(log) :
            e < f => /\ log[e][2] <= log[f][2]
                     /\ log[e] # log[f]
        /\ A_len = B_len => \A e \in 1 .. Len(log) : log[e][1] # 2
        /\ n <= A_len + B_len - 1 /\ m <= A_len
        /\ pc \notin {"ret", "fault"} =>
              ENABLED (Naive_Product \/ Naive_AddTo_Sum_Product)
        /\ pc = "ret" =>
              /\ Len(log) = A_len * B_len
              /\ {<<log[e][3], log[e][4]>> : e \in 1 .. Len(log)}
                     = (0 .. A_deg) \X (0 .. B_deg)
              /\ {log[e][2] : e \in 1 .. Len(log)} = OutIdx

C13_Forward ==
    (InSweep /\ pc \notin {"ret", "fault"}) => Position' > Position

C13_ThreeRegions == []C13_Regions /\ [][C13_Forward]_vars

\* A returned product of equal lengths: nine terms, none in region two.
C13_Witness ==
    /\ Returned("Naive_Product")
    /\ A_len = 3 /\ B_len = 3
    /\ Len(log) = 9
    /\ log[1] = <<1, 0, 0, 0>>
    /\ log[9] = <<3, 4, 2, 2>>
    /\ \A e \in 1 .. 9 : log[e][1] # 2

----------------------------------------------------------------------------
====
